---- MODULE Spec2Model ----
(***************************************************************************)
(* Model of the LCA prediction engine (ml_models/predict.py) and of the    *)
(* artifacts the training script (ml_models/train_model.py) hands to it.   *)
(*                                                                         *)
(* Numbers are fixed-point integers in thousandths (Milli = 1.0), which is *)
(* exact for every product the engine forms on integer inputs (x*0.3,      *)
(* x*0.3*1.2, x*0.2, x*0.2*0.5, x*0.4, x*0.5, x/100, sum*0.5).             *)
(* A Python dict is a function whose DOMAIN is the set of keys present.    *)
(* A JSON value of a numeric field is a record [kind, n]: kind "number"    *)
(* with n in thousandths, or kind "string" (float() raises on it).         *)
(***************************************************************************)
EXTENDS Integers, Sequences, FiniteSets, TLC

VARIABLES
    models,               \* self.models
    scalers,              \* self.scalers
    encoders,             \* self.encoders
    metadata,             \* self.metadata
    industry_benchmarks,  \* self.industry_benchmarks
    pc,                   \* position of main(): "constructed" or "done"
    data,                 \* request of the predict call
    result,               \* value returned by predict
    steps,                \* pipeline components the predict call invoked, in order
    X,                    \* feature vector selected in preprocess_input (df[required_features])
    X_processed,          \* the vector preprocess_input returned (<<>> for None)
    regressorCalls,       \* per target, what its model.predict call did in the predict call
    reconciled,           \* the scores predict handed to calculate_additional_metrics
    base_scores,          \* fallback_predict's local table as the last call left it
    fbData,               \* request of the last direct fallback_predict call
    fbResult,             \* value returned by that call
    fbPrev,               \* the fallback_predict call before it (sequence of 0 or 1 calls)
    predictions,          \* score set handed to apply_industry_benchmarks
    bmMetal,              \* metal_type handed to apply_industry_benchmarks
    bmInput,              \* the score set before the first application
    bmPrev,               \* the score set before the last application
    applied,              \* applications so far, saturating at 2
    artifacts,            \* content of model_dir the constructor reads
    threads,              \* per concurrent caller, the locals of its predict call
    regressors            \* per loaded regressor, what its predict does

engineVars == <<models, scalers, encoders, metadata, industry_benchmarks>>
predictVars == <<pc, data, result, steps, X, X_processed, regressorCalls, reconciled>>
fallbackVars == <<base_scores, fbData, fbResult, fbPrev>>
benchmarkVars == <<predictions, bmMetal, bmInput, bmPrev, applied>>
serveVars == <<artifacts, threads, regressors>>
vars == <<models, scalers, encoders, metadata, industry_benchmarks,
          pc, data, result, steps, X, X_processed, regressorCalls, reconciled,
          base_scores, fbData, fbResult, fbPrev,
          predictions, bmMetal, bmInput, bmPrev, applied,
          artifacts, threads, regressors>>

(***************************************************************************)
(* Bounds of the input domains.                                            *)
(***************************************************************************)
\* recycling_rate samples are 0, 50, ..., 50 * MaxRateStep (and 33)
MaxRateStep == 3
\* process_efficiency samples are 40, 80, ..., 40 * MaxEfficiencyStep (and 75)
MaxEfficiencyStep == 2
\* predict calls one caller makes on the engine
MaxCalls == 2

(***************************************************************************)
(* Values.                                                                 *)
(***************************************************************************)
Milli == 10 * 10 * 10

Num(n) == [kind |-> "number", n |-> n * Milli]
Str == [kind |-> "string", n |-> 0]

\* float(v): defined on numbers, raises ValueError on a non-numeric string
CanFloat(v) == v.kind = "number"

EmptyDict == [k \in {} |-> 0]

\* dict.get(key, default)
Get(d, key, default) == IF key \in DOMAIN d THEN d[key] ELSE default

\* d[key] = value
Put(d, key, value) == [k \in DOMAIN d \cup {key} |-> IF k = key THEN value ELSE d[k]]

Min(a, b) == IF a <= b THEN a ELSE b
Max(a, b) == IF a >= b THEN a ELSE b

\* max(0, min(100, x))
Clamp100(x) == Max(0, Min(100 * Milli, x))

\* round(x, 1): to the nearest tenth, ties to the even tenth
Round1(x) ==
    LET q == x \div 100
        r == x % 100
    IN  IF r > 50 \/ (r = 50 /\ q % 2 = 1) THEN (q + 1) * 100 ELSE q * 100

\* str.lower() on the metal names the model uses
Lower(s) ==
    CASE s = "Aluminum" -> "aluminum"
      [] s = "Copper"   -> "copper"
      [] s = "Steel"    -> "steel"
      [] s = "Titanium" -> "titanium"
      [] s = "Bronze"   -> "bronze"
      [] OTHER          -> s

Targets == <<"sustainability_score", "circular_score", "linear_score">>
TargetSet == {Targets[i] : i \in 1..Len(Targets)}

(***************************************************************************)
(* Feature names.                                                          *)
(***************************************************************************)
\* the built-in feature list of the engine
DefaultFeatureNames ==
    <<"metal_type_encoded", "production_route_encoded", "region_encoded",
      "total_energy", "total_water", "recycling_rate", "process_efficiency">>

\* numeric columns of the training dataset after preprocess_data, in column
\* order: the columns of the script's sample dataset, the three scores, then
\* one encoded column per categorical column (here the dataset also has a
\* categorical column efficiency_class, placed before production_route)
NumericColumns ==
    <<"total_energy", "total_water", "total_waste", "transport_distance",
      "recycling_rate", "reuse_rate", "product_lifetime", "process_efficiency",
      "sustainability_score", "circular_score", "linear_score",
      "metal_type_encoded", "efficiency_class_encoded",
      "production_route_encoded", "region_encoded">>

\* [col for col in numeric_cols if col != target]
FeatureCols(numeric_cols, target) ==
    SelectSeq(numeric_cols, LAMBDA col : col # target)

\* self.feature_names after train_models: the feature list of the last target
TrainedFeatureNames ==
    FeatureCols(NumericColumns, NumericColumns[Len(NumericColumns)])

\* which of the substrings tested by preprocess_input occur in a feature name
FeatureSubstrings ==
    [metal_type_encoded       |-> {"encoded"},
     production_route_encoded |-> {"encoded"},
     region_encoded           |-> {"encoded"},
     efficiency_class_encoded |-> {"efficiency", "encoded"},
     total_energy             |-> {},
     total_water              |-> {},
     total_waste              |-> {},
     recycling_rate           |-> {"rate"},
     reuse_rate               |-> {"rate"},
     process_efficiency       |-> {"efficiency"},
     transport_distance       |-> {"distance"},
     product_lifetime         |-> {"lifetime"},
     sustainability_score     |-> {},
     circular_score           |-> {},
     linear_score             |-> {}]

\* substring in feature
Contains(feature, substring) == substring \in FeatureSubstrings[feature]

(***************************************************************************)
(* The artifact store and construction.                                    *)
(***************************************************************************)
\* a regressor as train_models fits it for one target
TrainedRegressor(target) ==
    [n_features_in |-> Len(FeatureCols(NumericColumns, target))]

\* a StandardScaler as train_models fits it for one target
TrainedScaler(target) ==
    [n_features_in |-> Len(FeatureCols(NumericColumns, target)),
     mean |-> 10 * Milli, scale |-> 2]

\* the file contents save_models writes
SavedMetadata ==
    [feature_names |-> TrainedFeatureNames,
     trained_at |-> "2024-01-01T00:00:00",
     version |-> "1.0"]

SavedScalers ==
    [target \in {NumericColumns[i] : i \in 1..Len(NumericColumns)} |->
        TrainedScaler(target)]

SavedEncoders ==
    [c \in {"metal_type", "efficiency_class", "production_route", "region"} |->
        "LabelEncoder"]

\* a scaler collection that carries the key the engine looks up, fitted on
\* the feature list the metadata records
MainScalers ==
    [main |-> [n_features_in |-> Len(TrainedFeatureNames),
               mean |-> 10 * Milli, scale |-> 2]]

\* the states the model directory can be in when the engine is constructed
ArtifactStores ==
    [metadata : {"absent", "corrupt", "valid"},
     model    : [TargetSet -> {"absent", "corrupt", "valid"}],
     scalers  : {"absent", "corrupt", "per_target", "main"},
     encoders : {"absent", "corrupt", "valid"}]

NoArtifacts ==
    [metadata |-> "absent",
     model |-> [t \in TargetSet |-> "absent"],
     scalers |-> "absent", encoders |-> "absent"]

load_models_regressor_raises(store) ==
    IF store.metadata = "corrupt" \/ \E t \in TargetSet : store.model[t] = "corrupt"
    THEN [raised |-> TRUE, metadata |-> EmptyDict, models |-> EmptyDict,
          scalers |-> EmptyDict, encoders |-> EmptyDict]
    ELSE [raised |-> FALSE,
          metadata |-> IF store.metadata = "valid"
                       THEN SavedMetadata ELSE EmptyDict,
          models |-> [t \in {u \in TargetSet : store.model[u] = "valid"} |->
                         TrainedRegressor(t)],
          scalers |-> CASE store.scalers = "per_target" -> SavedScalers
                        [] store.scalers = "main" -> MainScalers
                        [] OTHER -> EmptyDict,
          encoders |-> IF store.encoders = "valid" THEN SavedEncoders ELSE EmptyDict]

\* load_models: the attributes it leaves and whether it raised
load_models(store) ==
    IF store.metadata = "corrupt"
    THEN [raised |-> TRUE, metadata |-> EmptyDict, models |-> EmptyDict,
          scalers |-> EmptyDict, encoders |-> EmptyDict]
    ELSE [raised |-> FALSE,
          metadata |-> IF store.metadata = "valid"
                       THEN SavedMetadata ELSE EmptyDict,
          models |-> [t \in {u \in TargetSet : store.model[u] = "valid"} |->
                         TrainedRegressor(t)],
          scalers |-> CASE store.scalers = "per_target" -> SavedScalers
                        [] store.scalers = "main" -> MainScalers
                        [] OTHER -> EmptyDict,
          encoders |-> IF store.encoders = "valid" THEN SavedEncoders ELSE EmptyDict]

\* initialize_fallback_models: the attributes it overwrites
initialize_fallback_models ==
    [models |-> [fallback |-> TRUE],
     metadata |-> [version |-> "1.0-fallback",
                   trained_at |-> "Fallback mode",
                   feature_names |-> DefaultFeatureNames]]

\* the table __init__ assigns to self.industry_benchmarks
IndustryBenchmarks ==
    [aluminum |-> [energy_intensity |-> [min |-> 12000, max |-> 25000, avg |-> 18500],
                   water_intensity  |-> [min |-> 8000,  max |-> 20000, avg |-> 12000],
                   co2_intensity    |-> [min |-> 10000, max |-> 20000, avg |-> 15000]],
     copper   |-> [energy_intensity |-> [min |-> 15000, max |-> 30000, avg |-> 22000],
                   water_intensity  |-> [min |-> 10000, max |-> 25000, avg |-> 16000],
                   co2_intensity    |-> [min |-> 12000, max |-> 25000, avg |-> 18000]],
     steel    |-> [energy_intensity |-> [min |-> 18000, max |-> 35000, avg |-> 26000],
                   water_intensity  |-> [min |-> 12000, max |-> 30000, avg |-> 20000],
                   co2_intensity    |-> [min |-> 15000, max |-> 30000, avg |-> 22000]]]

\* __init__: the engine attributes after construction
Construct(store) ==
    LET loaded == load_models(store)
        fb == initialize_fallback_models
    IN  [models   |-> IF loaded.raised THEN fb.models ELSE loaded.models,
         scalers  |-> loaded.scalers,
         encoders |-> loaded.encoders,
         metadata |-> IF loaded.raised THEN fb.metadata ELSE loaded.metadata,
         industry_benchmarks |-> IndustryBenchmarks]

Constructed(store) ==
    LET self == Construct(store)
    IN  /\ models = self.models
        /\ scalers = self.scalers
        /\ encoders = self.encoders
        /\ metadata = self.metadata
        /\ industry_benchmarks = self.industry_benchmarks

(***************************************************************************)
(* Validator.                                                              *)
(***************************************************************************)
valid_metals == {"Aluminum", "Copper", "Steel", "Titanium"}

\* a message: its fixed text and the list formatted into it
Message(text, fields) == [text |-> text, fields |-> fields]

\* validate_input_data without the range check of recycling_rate
validate_input_data_no_rate_range(d) ==
    LET required_fields == <<"metal_type", "production_route", "region">>
        missing_fields == SelectSeq(required_fields, LAMBDA field : field \notin DOMAIN d)
        Fail(text) == [ok |-> FALSE, message |-> Message(text, <<>>)]
    IN  IF missing_fields # <<>>
        THEN [ok |-> FALSE, message |-> Message("Missing required fields", missing_fields)]
        ELSE IF d.metal_type \notin valid_metals
        THEN Fail("Invalid metal_type. Must be one of")
        ELSE IF "total_energy" \in DOMAIN d /\ ~CanFloat(d.total_energy)
        THEN Fail("Validation error")
        ELSE IF "total_energy" \in DOMAIN d
                /\ (d.total_energy.n < 0 \/ d.total_energy.n > 100 * Milli)
        THEN Fail("total_energy must be between 0 and 100 GJ")
        ELSE IF "recycling_rate" \in DOMAIN d /\ ~CanFloat(d.recycling_rate)
        THEN Fail("Validation error")
        ELSE [ok |-> TRUE, message |-> Message("Valid", <<>>)]

\* validate_input_data: (is_valid, message)
validate_input_data(d) ==
    LET required_fields == <<"metal_type", "production_route", "region">>
        missing_fields == SelectSeq(required_fields, LAMBDA field : field \notin DOMAIN d)
        Fail(text) == [ok |-> FALSE, message |-> Message(text, <<>>)]
    IN  IF missing_fields # <<>>
        THEN [ok |-> FALSE, message |-> Message("Missing required fields", missing_fields)]
        ELSE IF d.metal_type \notin valid_metals
        THEN Fail("Invalid metal_type. Must be one of")
        ELSE IF "total_energy" \in DOMAIN d /\ ~CanFloat(d.total_energy)
        THEN Fail("Validation error")
        ELSE IF "total_energy" \in DOMAIN d
                /\ (d.total_energy.n < 0 \/ d.total_energy.n > 100 * Milli)
        THEN Fail("total_energy must be between 0 and 100 GJ")
        ELSE IF "recycling_rate" \in DOMAIN d /\ ~CanFloat(d.recycling_rate)
        THEN Fail("Validation error")
        ELSE IF "recycling_rate" \in DOMAIN d
                /\ (d.recycling_rate.n < 0 \/ d.recycling_rate.n > 100 * Milli)
        THEN Fail("recycling_rate must be between 0 and 100%")
        ELSE [ok |-> TRUE, message |-> Message("Valid", <<>>)]

(***************************************************************************)
(* FeatureEncoder and Scaler Adapter.                                      *)
(***************************************************************************)
categorical_mappings ==
    [metal_type |-> [Aluminum |-> 0, Copper |-> 1, Steel |-> 2, Titanium |-> 3],
     production_route |-> [Primary |-> 0, Secondary |-> 1],
     region |-> ("North America" :> 0 @@ "Europe" :> 1 @@ "Asia" :> 2
                 @@ "South America" :> 3 @@ "India" :> 2)]

\* the column f"{col}_encoded" of each categorical column
EncodedColumn ==
    [metal_type |-> "metal_type_encoded",
     production_route |-> "production_route_encoded",
     region |-> "region_encoded"]

\* self.metadata.get('feature_names', [...])
required_features == Get(metadata, "feature_names", DefaultFeatureNames)

\* the defaults without the branch for lifetime features
default_feature_no_lifetime(feature) ==
    IF Contains(feature, "encoded") THEN Num(0)
    ELSE IF Contains(feature, "rate") \/ Contains(feature, "efficiency") THEN Num(50)
    ELSE IF Contains(feature, "distance") THEN Num(500)
    ELSE Num(0)

\* the default preprocess_input gives a feature that is not a column
default_feature(feature) ==
    IF Contains(feature, "encoded") THEN Num(0)
    ELSE IF Contains(feature, "rate") \/ Contains(feature, "efficiency") THEN Num(50)
    ELSE IF Contains(feature, "distance") THEN Num(500)
    ELSE IF Contains(feature, "lifetime") THEN Num(15)
    ELSE Num(0)

\* the row df[features]: the request's columns, the encoded columns of the
\* categorical fields present, defaults for the rest
encode(d, features) ==
    LET cats == {c \in DOMAIN categorical_mappings : c \in DOMAIN d}
        Encoded(c) == Num(Get(categorical_mappings[c], d[c], 0))
        Column(feature) ==
            IF \E c \in cats : EncodedColumn[c] = feature
            THEN Encoded(CHOOSE c \in cats : EncodedColumn[c] = feature)
            ELSE IF feature \in DOMAIN d THEN d[feature]
            ELSE default_feature(feature)
    IN  [i \in 1..Len(features) |-> Column(features[i])]

\* scaler.transform(X): raises on a row of the wrong width or with a
\* non-numeric entry, else (x - mean) / scale per entry
CanTransform(scaler, row) ==
    /\ Len(row) = scaler.n_features_in
    /\ \A i \in 1..Len(row) : CanFloat(row[i])

transform(scaler, row) ==
    [i \in 1..Len(row) |->
        [kind |-> "number", n |-> (row[i].n - scaler.mean) \div scaler.scale]]

\* preprocess_input: ok is FALSE where it returns None
preprocess_input(d) ==
    LET validation == validate_input_data(d)
        row == encode(d, required_features)
    IN  IF ~validation.ok
        THEN [ok |-> FALSE, X |-> <<>>, X_scaled |-> <<>>,
              steps |-> <<"validate_input_data">>]
        ELSE IF "main" \in DOMAIN scalers
        THEN [ok |-> TRUE, X |-> row,
              X_scaled |-> IF CanTransform(scalers.main, row)
                           THEN transform(scalers.main, row) ELSE row,
              steps |-> <<"validate_input_data", "encode", "transform">>]
        ELSE [ok |-> TRUE, X |-> row, X_scaled |-> row,
              steps |-> <<"validate_input_data", "encode">>]

(***************************************************************************)
(* Fallback Scorer.                                                        *)
(***************************************************************************)
\* the dict literal fallback_predict binds to its local base_scores
BaseScores ==
    [aluminum |-> [sustainability |-> 70 * Milli, circular |-> 80 * Milli, linear |-> 55 * Milli],
     copper   |-> [sustainability |-> 65 * Milli, circular |-> 75 * Milli, linear |-> 50 * Milli],
     steel    |-> [sustainability |-> 60 * Milli, circular |-> 70 * Milli, linear |-> 45 * Milli],
     titanium |-> [sustainability |-> 75 * Milli, circular |-> 85 * Milli, linear |-> 60 * Milli]]

\* the table a call would start from if base_scores outlived the call
shared_base_scores(stale) == stale

\* the table a call starts from: base_scores is a local, bound to a fresh
\* literal by every call, whatever an earlier call left in its own table
fresh_base_scores(stale) == BaseScores

\* the except branch of fallback_predict
FallbackConstants ==
    [sustainability_score |-> 65 * Milli, circular_score |-> 75 * Milli,
     linear_score |-> 55 * Milli]

\* the route adjustment of fallback_predict
route_adjusted(scores, d) ==
    IF "production_route" \in DOMAIN d /\ d.production_route = "Secondary"
    THEN [sustainability |-> scores.sustainability + 10 * Milli,
          circular |-> scores.circular + 15 * Milli,
          linear |-> scores.linear + 5 * Milli]
    ELSE scores

\* the recycling adjustment with the bonus added to linear as well
recycling_adjusted_all(scores, recycling_rate) ==
    LET recycling_bonus == (recycling_rate * 3) \div 10
    IN  [sustainability |-> scores.sustainability + recycling_bonus,
         circular |-> scores.circular + (recycling_bonus * 12) \div 10,
         linear |-> scores.linear + recycling_bonus]

\* the recycling adjustment with the circular bonus subtracted
recycling_adjusted_penalty(scores, recycling_rate) ==
    LET recycling_bonus == (recycling_rate * 3) \div 10
    IN  [sustainability |-> scores.sustainability + recycling_bonus,
         circular |-> scores.circular - (recycling_bonus * 12) \div 10,
         linear |-> scores.linear]

\* the recycling adjustment: recycling_bonus = rate * 0.3, circular gets bonus * 1.2
recycling_adjusted(scores, recycling_rate) ==
    LET recycling_bonus == (recycling_rate * 3) \div 10
    IN  [sustainability |-> scores.sustainability + recycling_bonus,
         circular |-> scores.circular + (recycling_bonus * 12) \div 10,
         linear |-> scores.linear]

\* the efficiency adjustment: efficiency_factor = (efficiency - 50) * 0.2
efficiency_adjusted(scores, efficiency) ==
    LET efficiency_factor == ((efficiency - 50 * Milli) * 2) \div 10
    IN  [sustainability |-> scores.sustainability + efficiency_factor,
         circular |-> scores.circular + efficiency_factor,
         linear |-> scores.linear + (efficiency_factor * 5) \div 10]

\* one run of fallback_predict from the table `start`: the value returned and
\* the local table as the run leaves it (scores aliases one row of the table)
fallback_run(d, start) ==
    LET metal_type == Lower(Get(d, "metal_type", "Aluminum"))
        key == IF metal_type \in DOMAIN start THEN metal_type ELSE "aluminum"
        recycling == Get(d, "recycling_rate", Num(0))
        efficiency == Get(d, "process_efficiency", Num(75))
        s1 == route_adjusted(start[key], d)
        s2 == recycling_adjusted(s1, recycling.n)
        s3 == efficiency_adjusted(s2, efficiency.n)
        s4 == [k \in DOMAIN s3 |-> Clamp100(s3[k])]
    IN  IF ~CanFloat(recycling)
        THEN [result |-> FallbackConstants, table |-> [start EXCEPT ![key] = s1]]
        ELSE IF ~CanFloat(efficiency)
        THEN [result |-> FallbackConstants, table |-> [start EXCEPT ![key] = s2]]
        ELSE [result |-> [sustainability_score |-> Round1(s4.sustainability),
                          circular_score |-> Round1(s4.circular),
                          linear_score |-> Round1(s4.linear)],
              table |-> [start EXCEPT ![key] = s4]]

\* fallback_predict(data), called when the previous call left `stale`
fallback_predict(d, stale) == fallback_run(d, fresh_base_scores(stale)).result

\* fallback_single_prediction
fallback_single_prediction(target) ==
    LET fallback_scores == [sustainability_score |-> 65 * Milli,
                            circular_score |-> 75 * Milli,
                            linear_score |-> 55 * Milli]
    IN  Get(fallback_scores, target, 60 * Milli)

(***************************************************************************)
(* Benchmark Reconciler.                                                   *)
(***************************************************************************)
\* calculate_confidence starting from the confidence already in the score set
calculate_confidence_cumulative(preds, benchmarks) ==
    LET base_confidence == Get(preds, "confidence", 800)
        sustainability == Get(preds, "sustainability_score", 50 * Milli)
        circular == Get(preds, "circular_score", 50 * Milli)
        linear == Get(preds, "linear_score", 50 * Milli)
        c1 == IF 30 * Milli <= sustainability /\ sustainability <= 95 * Milli
              THEN base_confidence + 100 ELSE base_confidence
        c2 == IF circular > linear THEN c1 + 100 ELSE c1
    IN  Min(Milli, c2)

\* calculate_confidence
calculate_confidence(preds, benchmarks) ==
    LET base_confidence == 800
        sustainability == Get(preds, "sustainability_score", 50 * Milli)
        circular == Get(preds, "circular_score", 50 * Milli)
        linear == Get(preds, "linear_score", 50 * Milli)
        c1 == IF 30 * Milli <= sustainability /\ sustainability <= 95 * Milli
              THEN base_confidence + 100 ELSE base_confidence
        c2 == IF circular > linear THEN c1 + 100 ELSE c1
    IN  Min(Milli, c2)

\* apply_industry_benchmarks
apply_industry_benchmarks(preds, metal_type) ==
    LET metal_key == Lower(metal_type)
        clamped == [k \in DOMAIN preds |->
                       IF k \in TargetSet THEN Clamp100(preds[k]) ELSE preds[k]]
    IN  IF metal_key \in DOMAIN industry_benchmarks
        THEN Put(clamped, "confidence",
                 calculate_confidence(clamped, industry_benchmarks[metal_key]))
        ELSE preds

(***************************************************************************)
(* Metrics Augmenter.                                                      *)
(***************************************************************************)
\* calculate_additional_metrics
calculate_additional_metrics_partial(preds, d) ==
    LET efficiency == Get(d, "process_efficiency", Num(80))
        recycling == Get(d, "recycling_rate", Num(0))
        distance == Get(d, "transport_distance", Num(500))
        e1 == Min(25 * Milli, Max(0, efficiency.n - 60 * Milli) \div 2)
        e2 == Min(30 * Milli, (recycling.n * 4) \div 10)
        e3 == Min(15 * Milli, Max(0, 1000 * Milli - distance.n) \div 100)
    IN  IF "sustainability_score" \notin DOMAIN preds THEN preds
        ELSE IF ~CanFloat(efficiency)
        THEN Put(preds, "improvements", EmptyDict)
        ELSE IF ~CanFloat(recycling)
        THEN Put(preds, "improvements", [energy_efficiency |-> e1])
        ELSE IF ~CanFloat(distance)
        THEN Put(preds, "improvements",
                 [energy_efficiency |-> e1, recycling_impact |-> e2])
        ELSE Put(Put(preds, "improvements",
                     [energy_efficiency |-> e1, recycling_impact |-> e2,
                      transport_optimization |-> e3]),
                 "potential_score",
                 Min(100 * Milli, preds.sustainability_score + (e1 + e2 + e3) \div 2))

calculate_additional_metrics(preds, d) ==
    LET efficiency == Get(d, "process_efficiency", Num(80))
        recycling == Get(d, "recycling_rate", Num(0))
        distance == Get(d, "transport_distance", Num(500))
        improvements ==
            [energy_efficiency |-> Min(25 * Milli, Max(0, efficiency.n - 60 * Milli) \div 2),
             recycling_impact |-> Min(30 * Milli, (recycling.n * 4) \div 10),
             transport_optimization |->
                 Min(15 * Milli, Max(0, 1000 * Milli - distance.n) \div 100)]
        total == improvements.energy_efficiency + improvements.recycling_impact
                 + improvements.transport_optimization
    IN  IF "sustainability_score" \notin DOMAIN preds THEN preds
        ELSE IF ~(CanFloat(efficiency) /\ CanFloat(recycling) /\ CanFloat(distance))
        THEN preds
        ELSE Put(Put(preds, "improvements", improvements),
                 "potential_score", Min(100 * Milli, preds.sustainability_score + total \div 2))

(***************************************************************************)
(* Inference Dispatcher and predict.                                       *)
(***************************************************************************)
\* what a loaded regressor's predict can do on a row it accepts
RegressorOutcomes ==
    {[raises |-> TRUE, pred |-> 0]}
    \cup {[raises |-> FALSE, pred |-> p] : p \in {0 - 20000, 42370, 130000}}

\* model.predict(X_processed): raises on a row of the wrong width or with a
\* non-numeric entry, else does what the regressor does
model_predict(model, row, outcome) ==
    IF Len(row) # model.n_features_in \/ \E i \in 1..Len(row) : ~CanFloat(row[i])
    THEN [raises |-> TRUE, pred |-> 0]
    ELSE outcome

\* the scores the dispatcher of predict builds before reconciliation
dispatch_global_fallback(d, row, outcomes, stale) ==
    LET calls == [target \in DOMAIN models |->
                     model_predict(models[target], row, outcomes[target])]
    IN  IF "fallback" \in DOMAIN models
        THEN fallback_predict(d, stale)
        ELSE [target \in DOMAIN models |->
                 IF \E other \in DOMAIN models : calls[other].raises
                 THEN fallback_single_prediction(target)
                 ELSE Clamp100(calls[target].pred)]

dispatch(d, row, outcomes, stale) ==
    IF "fallback" \in DOMAIN models
    THEN fallback_predict(d, stale)
    ELSE [target \in DOMAIN models |->
             LET run == model_predict(models[target], row, outcomes[target])
             IN  IF run.raises THEN fallback_single_prediction(target)
                 ELSE Clamp100(run.pred)]

\* what the model.predict calls of the dispatcher did, per target called
regressor_calls(row, outcomes) ==
    IF "fallback" \in DOMAIN models THEN EmptyDict
    ELSE [target \in DOMAIN models |->
             model_predict(models[target], row, outcomes[target])]

\* the components the dispatcher invokes, in order
dispatch_steps ==
    IF "fallback" \in DOMAIN models THEN <<"fallback_predict">>
    ELSE [i \in 1..Cardinality(DOMAIN models) |-> "model.predict"]

\* predict: the value returned and the components invoked. Every component
\* catches its own exceptions, so the outer except of predict is not reached
\* on the requests and artifacts modelled here.
\* the dict a successful predict call returns
prediction_result(augmented) ==
    [predictions |-> augmented,
     model_info |->
        [version |-> Get(metadata, "version", "1.0-enhanced"),
         trained_at |-> Get(metadata, "trained_at", "Enhanced mode"),
         confidence |-> Get(augmented, "confidence", 800)]]

predict(d, outcomes, stale) ==
    LET pre == preprocess_input(d)
        raw == dispatch(d, pre.X_scaled, outcomes, stale)
        metal_type == Get(d, "metal_type", "Aluminum")
        benchmarked == apply_industry_benchmarks(raw, metal_type)
        augmented == calculate_additional_metrics(benchmarked, d)
    IN  IF ~pre.ok
        THEN [result |-> [error |-> Message("Preprocessing failed", <<>>)],
              steps |-> pre.steps,
              calls |-> EmptyDict, reconciled |-> EmptyDict]
        ELSE [calls |-> regressor_calls(pre.X_scaled, outcomes),
              reconciled |-> benchmarked,
              result |-> prediction_result(augmented),
              steps |-> pre.steps \o dispatch_steps
                        \o <<"apply_industry_benchmarks", "calculate_additional_metrics">>]

(***************************************************************************)
(* Requests.                                                               *)
(***************************************************************************)
RequestFields ==
    {"metal_type", "production_route", "region", "total_energy",
     "recycling_rate", "process_efficiency", "transport_distance"}

CategoricalFields == {"metal_type", "production_route", "region"}

Missing == "<missing>"
MissingValue == [kind |-> "missing", n |-> 0]

\* the request that carries the fields of `full` that are not marked missing
MkRequest(full) ==
    LET present == {f \in CategoricalFields : full[f] # Missing}
                   \cup {f \in RequestFields \ CategoricalFields : full[f].kind # "missing"}
    IN  [f \in present |-> full[f]]

RateSamples == {Num(50 * k) : k \in 0..MaxRateStep} \cup {Num(33)}
EfficiencySamples == {Num(40 * k) : k \in 1..MaxEfficiencyStep} \cup {Num(75)}

\* requests handed to predict
Requests ==
    {MkRequest([metal_type |-> m, production_route |-> p, region |-> g,
                total_energy |-> e, recycling_rate |-> r,
                process_efficiency |-> f, transport_distance |-> t]) :
        m \in valid_metals \cup {"Bronze", Missing},
        p \in {"Primary", "Secondary", Missing},
        g \in {"Europe", Missing},
        e \in {MissingValue, Num(50), Num(101)},
        r \in {MissingValue, Str} \cup {Num(50 * k) : k \in 1..MaxRateStep},
        f \in {MissingValue, Str} \cup {Num(40 * k) : k \in 2..MaxEfficiencyStep},
        t \in {MissingValue, Str, Num(201)}}

\* requests handed to fallback_predict directly
FallbackRequests ==
    {MkRequest([metal_type |-> m, production_route |-> p, region |-> Missing,
                total_energy |-> MissingValue, recycling_rate |-> r,
                process_efficiency |-> f, transport_distance |-> MissingValue]) :
        m \in valid_metals \cup {"Bronze", Missing},
        p \in {"Primary", "Secondary", Missing},
        r \in {MissingValue, Str, Num(0 - 250)} \cup RateSamples,
        f \in {MissingValue, Str, Num(0 - 500)} \cup EfficiencySamples}

\* requests of the call sequences on one engine
SequenceRequests ==
    {d \in FallbackRequests :
        /\ Get(d, "metal_type", "Aluminum") \in {"Aluminum", "Steel"}
        /\ "production_route" \in DOMAIN d
        /\ Get(d, "recycling_rate", Num(0)).kind = "number"
        /\ Get(d, "recycling_rate", Num(0)).n >= 0
        /\ Get(d, "process_efficiency", Num(80)) = Num(80)}

\* score sets handed to apply_industry_benchmarks
ScoreSamples == {0 - 5000, 0, 29900, 50000, 96000, 100000, 120500}

ScoreSets ==
    UNION {[present -> ScoreSamples] : present \in SUBSET TargetSet}

(***************************************************************************)
(* Operations.                                                             *)
(***************************************************************************)
NoCall == [k \in {} |-> 0]

\* main(): the one predict call made on the constructed engine
Predict(d, outcomes) ==
    /\ pc = "constructed"
    /\ \E call \in {predict(d, outcomes, base_scores)}, pre \in {preprocess_input(d)} :
           /\ result' = call.result
           /\ steps' = call.steps
           /\ X' = pre.X
           /\ X_processed' = pre.X_scaled
           /\ regressorCalls' = call.calls
           /\ reconciled' = call.reconciled
           /\ base_scores' = IF pre.ok /\ "fallback" \in DOMAIN models
                             THEN fallback_run(d, fresh_base_scores(base_scores)).table
                             ELSE base_scores
    /\ data' = d
    /\ pc' = "done"
    /\ UNCHANGED <<engineVars, fbData, fbResult, fbPrev, benchmarkVars, serveVars>>

\* the regressor outcomes that matter to a predict call
OutcomesFor(d) ==
    IF preprocess_input(d).ok /\ "fallback" \notin DOMAIN models
    THEN [DOMAIN models -> RegressorOutcomes]
    ELSE {[target \in DOMAIN models |-> [raises |-> TRUE, pred |-> 0]]}

\* a direct call of fallback_predict
FallbackPredict(d) ==
    /\ fbData' = d
    /\ fbResult' = fallback_predict(d, base_scores)
    /\ base_scores' = fallback_run(d, fresh_base_scores(base_scores)).table
    /\ UNCHANGED <<engineVars, predictVars, benchmarkVars, serveVars>>

\* a direct call of apply_industry_benchmarks on the current score set
ApplyBenchmarks ==
    /\ predictions' = apply_industry_benchmarks(predictions, bmMetal)
    /\ bmPrev' = predictions
    /\ applied' = IF applied < 2 THEN applied + 1 ELSE applied
    /\ UNCHANGED <<engineVars, predictVars, fallbackVars, bmMetal, bmInput, serveVars>>

(***************************************************************************)
(* Specifications.                                                         *)
(***************************************************************************)
IdlePredict ==
    /\ data = NoCall /\ result = NoCall /\ steps = <<>> /\ X = <<>>
    /\ X_processed = <<>> /\ regressorCalls = NoCall /\ reconciled = NoCall

IdleFallback ==
    /\ base_scores = BaseScores /\ fbData = NoCall /\ fbResult = NoCall /\ fbPrev = <<>>

IdleBenchmarks ==
    /\ predictions = NoCall /\ bmMetal = "Aluminum" /\ bmInput = NoCall
    /\ bmPrev = NoCall /\ applied = 0

IdleServe == artifacts = NoCall /\ threads = NoCall /\ regressors = NoCall

\* the command-line program: construction over any model directory, then one
\* predict call
Init ==
    /\ \E store \in ArtifactStores : Constructed(store)
    /\ pc = "constructed"
    /\ IdlePredict /\ IdleFallback /\ IdleBenchmarks /\ IdleServe

Next ==
    /\ pc = "constructed"
    /\ \E d \in Requests : \E outcomes \in OutcomesFor(d) : Predict(d, outcomes)

Spec == Init /\ [][Next]_vars

\* single calls of the Fallback Scorer over its whole input domain
InitFallback ==
    /\ Constructed(NoArtifacts)
    /\ pc = "constructed"
    /\ IdlePredict /\ IdleFallback /\ IdleBenchmarks /\ IdleServe

NextFallback == \E d \in FallbackRequests : FallbackPredict(d) /\ fbPrev' = <<>>

SpecFallback == InitFallback /\ [][NextFallback]_vars

\* sequences of Fallback Scorer calls on one engine, remembering the call
\* before the last
NextSequence ==
    \E d \in SequenceRequests :
        /\ FallbackPredict(d)
        /\ fbPrev' = IF fbResult = NoCall THEN <<>>
                     ELSE <<[data |-> fbData, result |-> fbResult]>>

SpecSequence == InitFallback /\ [][NextSequence]_vars

\* repeated reconciliation of one score set for one metal
InitReconcile ==
    /\ Constructed(NoArtifacts)
    /\ pc = "constructed"
    /\ IdlePredict /\ IdleFallback /\ IdleServe
    /\ predictions \in ScoreSets
    /\ bmMetal \in valid_metals \cup {"Bronze"}
    /\ bmInput = predictions
    /\ bmPrev = predictions
    /\ applied = 0

NextReconcile == ApplyBenchmarks

SpecReconcile == InitReconcile /\ [][NextReconcile]_vars

\* the constructor, from the attributes' initial values to the end of __init__
ConstructEngine ==
    /\ pc = "start"
    /\ LET self == Construct(artifacts)
       IN  /\ models' = self.models
           /\ scalers' = self.scalers
           /\ encoders' = self.encoders
           /\ metadata' = self.metadata
           /\ industry_benchmarks' = self.industry_benchmarks
    /\ pc' = "constructed"
    /\ UNCHANGED <<data, result, steps, X, X_processed, regressorCalls, reconciled,
                   fallbackVars, benchmarkVars, artifacts, threads, regressors>>

\* construction over every model directory
InitConstruct ==
    /\ artifacts \in ArtifactStores
    /\ models = EmptyDict /\ scalers = EmptyDict
    /\ encoders = EmptyDict /\ metadata = EmptyDict
    /\ industry_benchmarks = IndustryBenchmarks
    /\ pc = "start"
    /\ threads = NoCall /\ regressors = NoCall
    /\ IdlePredict /\ IdleFallback /\ IdleBenchmarks

NextConstruct == ConstructEngine

SpecConstruct == InitConstruct /\ [][NextConstruct]_vars

\* callers sharing one engine
Threads == {"t1", "t2"}

IdleThread ==
    [pc |-> "idle", data |-> NoCall, X_processed |-> <<>>,
     predictions |-> NoCall, result |-> NoCall, calls |-> 0]

\* predict up to the return of preprocess_input
ThreadPreprocess(t, d) ==
    /\ threads[t].pc \in {"idle", "returned"}
    /\ threads[t].calls < MaxCalls
    /\ LET pre == preprocess_input(d)
       IN  threads' = [threads EXCEPT ![t] =
              [pc |-> IF pre.ok THEN "preprocessed" ELSE "returned",
               data |-> d,
               X_processed |-> pre.X_scaled,
               predictions |-> NoCall,
               result |-> IF pre.ok THEN NoCall
                          ELSE [error |-> Message("Preprocessing failed", <<>>)],
               calls |-> @.calls + 1]]
    /\ UNCHANGED <<engineVars, predictVars, fallbackVars, benchmarkVars,
                   artifacts, regressors>>

ThreadDispatch_shared_predictions(t) ==
    /\ threads[t].pc = "preprocessed"
    /\ LET scores == dispatch(threads[t].data, threads[t].X_processed,
                              regressors, base_scores)
       IN  threads' = [u \in Threads |->
              IF u = t
              THEN [threads[u] EXCEPT !.pc = "dispatched", !.predictions = scores]
              ELSE [threads[u] EXCEPT !.predictions = scores]]
    /\ base_scores' = IF "fallback" \in DOMAIN models
                      THEN fallback_run(threads[t].data,
                                        fresh_base_scores(base_scores)).table
                      ELSE base_scores
    /\ UNCHANGED <<engineVars, predictVars, fbData, fbResult, fbPrev, benchmarkVars,
                   artifacts, regressors>>

\* predict from the mode test to the end of the regressor loop
ThreadDispatch(t) ==
    /\ threads[t].pc = "preprocessed"
    /\ threads' = [threads EXCEPT ![t] =
          [@ EXCEPT !.pc = "dispatched",
                    !.predictions = dispatch(threads[t].data, threads[t].X_processed,
                                             regressors, base_scores)]]
    /\ base_scores' = IF "fallback" \in DOMAIN models
                      THEN fallback_run(threads[t].data,
                                        fresh_base_scores(base_scores)).table
                      ELSE base_scores
    /\ UNCHANGED <<engineVars, predictVars, fbData, fbResult, fbPrev, benchmarkVars,
                   artifacts, regressors>>

\* predict's call of apply_industry_benchmarks
ThreadReconcile(t) ==
    /\ threads[t].pc = "dispatched"
    /\ threads' = [threads EXCEPT ![t] =
          [@ EXCEPT !.pc = "reconciled",
                    !.predictions = apply_industry_benchmarks(
                                        threads[t].predictions,
                                        Get(threads[t].data, "metal_type", "Aluminum"))]]
    /\ UNCHANGED <<engineVars, predictVars, fallbackVars, benchmarkVars,
                   artifacts, regressors>>

\* predict's call of calculate_additional_metrics and its return
ThreadReturn(t) ==
    /\ threads[t].pc = "reconciled"
    /\ threads' = [threads EXCEPT ![t] =
          [@ EXCEPT !.pc = "returned",
                    !.result = prediction_result(
                                   calculate_additional_metrics(threads[t].predictions,
                                                                threads[t].data))]]
    /\ UNCHANGED <<engineVars, predictVars, fallbackVars, benchmarkVars,
                   artifacts, regressors>>

\* the complete bundle the training script writes
TrainedStore ==
    [metadata |-> "valid",
     model |-> [t \in TargetSet |-> "valid"],
     scalers |-> "per_target", encoders |-> "valid"]

\* model directories of the shared engine
ServeStores ==
    {NoArtifacts, TrainedStore,
     [TrainedStore EXCEPT !.metadata = "corrupt"],
     [TrainedStore EXCEPT !.scalers = "main"],
     [TrainedStore EXCEPT !.model = [@ EXCEPT !["linear_score"] = "absent"]]}

\* what a loaded regressor does on the vectors it is given
ServeOutcomes == {[raises |-> TRUE, pred |-> 0], [raises |-> FALSE, pred |-> 42370]}

\* requests of the concurrent callers
ServeRequests ==
    {MkRequest([metal_type |-> m, production_route |-> "Secondary", region |-> "Europe",
                total_energy |-> MissingValue, recycling_rate |-> r,
                process_efficiency |-> Num(80), transport_distance |-> MissingValue]) :
        m \in {"Aluminum", "Titanium", "Bronze"},
        r \in {MissingValue, Num(100)}}

InitServe ==
    /\ artifacts \in ServeStores
    /\ Constructed(artifacts)
    /\ regressors \in [DOMAIN models \cap TargetSet -> ServeOutcomes]
    /\ threads = [t \in Threads |-> IdleThread]
    /\ pc = "constructed"
    /\ IdlePredict /\ IdleFallback /\ IdleBenchmarks

NextServe ==
    \E t \in Threads :
        \/ \E d \in ServeRequests : ThreadPreprocess(t, d)
        \/ ThreadDispatch(t)
        \/ ThreadReconcile(t)
        \/ ThreadReturn(t)

SpecServe == InitServe /\ [][NextServe]_vars

TypeOK ==
    /\ pc \in {"start", "constructed", "done"}
    /\ applied \in 0..2

(***************************************************************************)
(* Properties.                                                             *)
(***************************************************************************)
RequiredFields == {"metal_type", "production_route", "region"}

\* v is a number within [0,100]
Percentage(v) == v.kind = "number" /\ 0 <= v.n /\ v.n <= 100 * Milli

\* a request the Validator's contract accepts
ValidRequest(d) ==
    /\ RequiredFields \subseteq DOMAIN d
    /\ d.metal_type \in {"Aluminum", "Copper", "Steel", "Titanium"}
    /\ "total_energy" \in DOMAIN d => Percentage(d.total_energy)
    /\ "recycling_rate" \in DOMAIN d => Percentage(d.recycling_rate)

\* a request the Validator's contract rejects for one of the reasons it names
RejectedRequest(d) ==
    \/ ~(RequiredFields \subseteq DOMAIN d)
    \/ d.metal_type \notin {"Aluminum", "Copper", "Steel", "Titanium"}
    \/ "total_energy" \in DOMAIN d
       /\ d.total_energy.kind = "number" /\ ~Percentage(d.total_energy)
    \/ "recycling_rate" \in DOMAIN d
       /\ d.recycling_rate.kind = "number" /\ ~Percentage(d.recycling_rate)

Score(x) == 0 <= x /\ x <= 100 * Milli

\* C1: for every valid request and every subset of artifacts present at
\* construction, the result of predict contains sustainability_score,
\* circular_score and linear_score, each within [0,100].
C1_AllScoresPresentAndBounded ==
    (pc = "done" /\ ValidRequest(data)) =>
        /\ "predictions" \in DOMAIN result
        /\ \A target \in TargetSet :
              /\ target \in DOMAIN result.predictions
              /\ Score(result.predictions[target])

\* C2: for every valid request, whatever the metal and the inference mode,
\* the predictions mapping returned by predict contains a confidence value
\* within [0,1].
C2_ConfidencePresentAndBounded ==
    (pc = "done" /\ ValidRequest(data)) =>
        /\ "predictions" \in DOMAIN result
        /\ "confidence" \in DOMAIN result.predictions
        /\ 0 <= result.predictions.confidence
        /\ result.predictions.confidence <= Milli

\* number of times a component occurs in the trace of the call
Invocations(component) == Cardinality({i \in 1..Len(steps) : steps[i] = component})

\* C3: when no trained regressor is available after construction (models is
\* empty or marked fallback-only), predict delegates the whole target set to
\* the Fallback Scorer in one call and the three scores returned are those of
\* fallback_predict(request).
C3_NoRegressorDelegatesToFallback ==
    (/\ pc = "done"
     /\ ValidRequest(data)
     /\ (DOMAIN models = {} \/ "fallback" \in DOMAIN models)) =>
        /\ Invocations("fallback_predict") = 1
        /\ "predictions" \in DOMAIN result
        /\ \A target \in TargetSet :
              /\ target \in DOMAIN result.predictions
              /\ result.predictions[target] = fallback_predict(data, BaseScores)[target]
              /\ Score(result.predictions[target])

\* C4: a request that lacks a required field, or has a metal_type outside the
\* four metals, or a total_energy or recycling_rate outside [0,100], gets an
\* error-only result, and validation is the only component that ran: no
\* encoding, no regressor, no Fallback Scorer, no predictions.
C4_RejectedBeforeAnyOtherStep ==
    (pc = "done" /\ RejectedRequest(data)) =>
        /\ DOMAIN result = {"error"}
        /\ steps = <<"validate_input_data">>
        /\ X = <<>>

\* a request with trained regressors loaded and recycling_rate above 100 was
\* rejected
C4_Witness ==
    /\ pc = "done"
    /\ DOMAIN models = TargetSet
    /\ RequiredFields \subseteq DOMAIN data
    /\ data.metal_type = "Steel"
    /\ "recycling_rate" \in DOMAIN data
    /\ data.recycling_rate.kind = "number"
    /\ data.recycling_rate.n > 100 * Milli
    /\ "error" \in DOMAIN result

\* C5: when the request is missing any of metal_type, production_route or
\* region, the result of predict is {"error": "Missing required fields: [...]"},
\* the validator's reason naming the missing fields.
C5_MissingFieldsReasonSurfaced ==
    (pc = "done" /\ ~(RequiredFields \subseteq DOMAIN data)) =>
        /\ DOMAIN result = {"error"}
        /\ result.error.text = "Missing required fields"
        /\ {result.error.fields[i] : i \in 1..Len(result.error.fields)}
              = RequiredFields \ DOMAIN data

\* the reference rule of the Fallback Scorer, on a request whose
\* recycling_rate and process_efficiency are numbers or missing
ReferenceRule(d) ==
    LET metal == Get(d, "metal_type", "Aluminum")
        base == CASE metal = "Copper"   -> <<65, 75, 50>>
                  [] metal = "Steel"    -> <<60, 70, 45>>
                  [] metal = "Titanium" -> <<75, 85, 60>>
                  [] OTHER              -> <<70, 80, 55>>
        secondary == "production_route" \in DOMAIN d /\ d.production_route = "Secondary"
        rate == IF "recycling_rate" \in DOMAIN d THEN d.recycling_rate.n ELSE 0
        efficiency == IF "process_efficiency" \in DOMAIN d
                      THEN d.process_efficiency.n ELSE 75 * Milli
        factor == ((efficiency - 50 * Milli) * 20) \div 100
        Bounded(x) == IF x < 0 THEN 0 ELSE IF x > 100 * Milli THEN 100 * Milli ELSE x
        Tenth(x) == ((x + 50) \div 100) * 100
    IN  [sustainability_score |->
            Tenth(Bounded(base[1] * Milli + (IF secondary THEN 10 * Milli ELSE 0)
                          + (rate * 30) \div 100 + factor)),
         circular_score |->
            Tenth(Bounded(base[2] * Milli + (IF secondary THEN 15 * Milli ELSE 0)
                          + (rate * 36) \div 100 + factor)),
         linear_score |->
            Tenth(Bounded(base[3] * Milli + (IF secondary THEN 5 * Milli ELSE 0)
                          + factor \div 2))]

NumericOrMissing(d, field) == field \in DOMAIN d => d[field].kind = "number"

\* the request of the worked example: Aluminum, Secondary, recycling_rate 50,
\* process_efficiency 80
IsWorkedExample(d) ==
    /\ {"metal_type", "production_route", "recycling_rate", "process_efficiency"}
          \subseteq DOMAIN d
    /\ d.metal_type = "Aluminum" /\ d.production_route = "Secondary"
    /\ d.recycling_rate = Num(50) /\ d.process_efficiency = Num(80)

\* C6: for every metal_type, production_route, recycling_rate and
\* process_efficiency, fallback_predict returns exactly the result of the
\* reference rule (base triple by metal, unknown metal as Aluminum; Secondary
\* adds 10/15/5; recycling_rate*0.3 to sustainability and *0.36 to circular;
\* (process_efficiency-50)*0.2 to sustainability and circular and half of it
\* to linear; clamp to [0,100]; round to one decimal; missing recycling_rate
\* is 0 and missing process_efficiency is 75); the worked example yields
\* 100, 100 and 63.
C6_FallbackMatchesReferenceRule ==
    (/\ fbResult # NoCall
     /\ NumericOrMissing(fbData, "recycling_rate")
     /\ NumericOrMissing(fbData, "process_efficiency")) =>
        /\ fbResult = ReferenceRule(fbData)
        /\ IsWorkedExample(fbData) =>
              fbResult = [sustainability_score |-> 100 * Milli,
                          circular_score |-> 100 * Milli,
                          linear_score |-> 63 * Milli]

\* the worked example was scored
C6_Witness ==
    /\ fbResult # NoCall
    /\ IsWorkedExample(fbData)
    /\ fbResult.linear_score = 63 * Milli

\* C7: in any sequence of fallback_predict calls on one engine, each call's
\* scores depend only on that call's request: a call equals the call before
\* it when their requests are equal, and equals what the same request yields
\* as the first call on a fresh engine, so no addition made to the base-score
\* table by one call is visible to a later one.
C7_FallbackDependsOnRequestOnly ==
    /\ fbResult # NoCall => fbResult = fallback_run(fbData, BaseScores).result
    /\ (fbPrev # <<>> /\ fbPrev[1].data = fbData) => fbPrev[1].result = fbResult

\* the same Secondary-route request was scored twice in a row, and the first
\* of the two calls left additions in its table
C7_Witness ==
    /\ fbPrev # <<>>
    /\ fbPrev[1].data = fbData
    /\ fbData.production_route = "Secondary"
    /\ base_scores # BaseScores
    /\ fbResult.linear_score < 100 * Milli

\* the two requests differ in recycling_rate only
DifferInRateOnly(d1, d2) ==
    /\ DOMAIN d1 = DOMAIN d2
    /\ "recycling_rate" \in DOMAIN d1
    /\ \A field \in DOMAIN d1 \ {"recycling_rate"} : d1[field] = d2[field]

\* C8: for two requests that differ only in recycling_rate, r1 <= r2 both in
\* [0,100], fallback_predict gives sustainability_score(r1) <=
\* sustainability_score(r2) and circular_score(r1) <= circular_score(r2),
\* clamping and rounding included, and the same linear_score.
C8_FallbackMonotoneInRecyclingRate ==
    (/\ fbPrev # <<>>
     /\ DifferInRateOnly(fbPrev[1].data, fbData)
     /\ Percentage(fbPrev[1].data.recycling_rate)
     /\ Percentage(fbData.recycling_rate)
     /\ fbPrev[1].data.recycling_rate.n <= fbData.recycling_rate.n) =>
        /\ fbPrev[1].result.sustainability_score <= fbResult.sustainability_score
        /\ fbPrev[1].result.circular_score <= fbResult.circular_score
        /\ fbPrev[1].result.linear_score = fbResult.linear_score

\* a rate of 33 was followed by a rate of 100 on an otherwise equal request,
\* the first circular score rounded and the second clamped
C8_Witness ==
    /\ fbPrev # <<>>
    /\ DifferInRateOnly(fbPrev[1].data, fbData)
    /\ fbPrev[1].data.recycling_rate = Num(33)
    /\ fbData.recycling_rate = Num(100)
    /\ fbPrev[1].result.circular_score < fbResult.circular_score
    /\ fbResult.circular_score = 100 * Milli

\* every primary score present in the score set is within [0,100]
ScoresWithinRange(preds) ==
    \A target \in TargetSet \cap DOMAIN preds : Score(preds[target])

\* C9: for every metal_type, apply_industry_benchmarks leaves the primary
\* scores of a score set that is already within [0,100] unchanged, and a
\* second application to its own output changes nothing (same scores, same
\* confidence).
C9_ReconcilerIdempotent ==
    ScoresWithinRange(bmInput) =>
        /\ applied >= 1 =>
              /\ TargetSet \cap DOMAIN predictions = TargetSet \cap DOMAIN bmInput
              /\ \A target \in TargetSet \cap DOMAIN bmInput :
                    predictions[target] = bmInput[target]
        /\ applied = 2 => predictions = bmPrev

\* a complete in-range score set for Steel was reconciled twice and carries a
\* confidence
C9_Witness ==
    /\ applied = 2
    /\ bmMetal = "Steel"
    /\ DOMAIN bmInput = TargetSet
    /\ ScoresWithinRange(bmInput)
    /\ "confidence" \in DOMAIN predictions
    /\ predictions.confidence = 900

\* the documented default of a missing feature
DocumentedDefault(feature) ==
    IF Contains(feature, "rate") \/ Contains(feature, "efficiency") THEN Num(50)
    ELSE IF Contains(feature, "distance") THEN Num(500)
    ELSE IF Contains(feature, "lifetime") THEN Num(15)
    ELSE Num(0)

\* the default of a missing feature, names containing 'encoded' first
EncodedFirstDefault(feature) ==
    IF Contains(feature, "encoded") THEN Num(0) ELSE DocumentedDefault(feature)

\* the documented integer code of a categorical value
CategoryCode(value) ==
    CASE value \in {"Aluminum", "Primary", "North America"} -> 0
      [] value \in {"Copper", "Secondary", "Europe"} -> 1
      [] value \in {"Steel", "Asia", "India"} -> 2
      [] value \in {"Titanium", "South America"} -> 3
      [] OTHER -> 0

\* the entry of the encoded vector for a feature, given the rule for the
\* defaults: the code of the categorical field it encodes, else the default
ExpectedEntry(d, feature, Default(_)) ==
    CASE feature = "metal_type_encoded" -> Num(CategoryCode(d.metal_type))
      [] feature = "production_route_encoded" -> Num(CategoryCode(d.production_route))
      [] feature = "region_encoded" -> Num(CategoryCode(d.region))
      [] OTHER -> Default(feature)

\* what a valid request carrying only the three required fields must yield,
\* given the rule for the defaults of the encoder
OnlyRequiredFieldsYield(Default(_)) ==
    (pc = "done" /\ DOMAIN data = RequiredFields /\ ValidRequest(data)) =>
        LET feature_order == Get(metadata, "feature_names", DefaultFeatureNames)
            preds == result.predictions
            withDefaults == Put(Put(data, "recycling_rate", Num(0)),
                                "process_efficiency", Num(75))
        IN  /\ DOMAIN result = {"predictions", "model_info"}
            /\ Len(X) = Len(feature_order)
            /\ \A i \in 1..Len(feature_order) :
                  X[i] = ExpectedEntry(data, feature_order[i], Default)
            /\ "fallback" \in DOMAIN models =>
                  \A target \in TargetSet : preds[target] = ReferenceRule(withDefaults)[target]
            /\ "sustainability_score" \in DOMAIN preds =>
                  /\ preds.improvements =
                        [energy_efficiency |-> ((80 - 60) * Milli) \div 2,
                         recycling_impact |-> 0,
                         transport_optimization |-> ((1000 - 500) * Milli) \div 100]
                  /\ preds.potential_score =
                        Min(100 * Milli, preds.sustainability_score + (15 * Milli) \div 2)

\* C10 as stated: missing optional fields never cause an error and trigger
\* the documented defaults: the encoded vector follows feature_order with each
\* missing feature set to 50 (name contains 'rate' or 'efficiency'), 500
\* ('distance'), 15 ('lifetime') or 0 (otherwise), extra fields dropped; the
\* Fallback Scorer uses recycling_rate 0 and process_efficiency 75; the
\* Metrics Augmenter uses process_efficiency 80, recycling_rate 0 and
\* transport_distance 500.
C10_DocumentedDefaults == OnlyRequiredFieldsYield(DocumentedDefault)

\* C10 as amended: the same, except that a missing feature whose name
\* contains 'encoded' is set to 0 whatever else its name contains, and the
\* rule for 'rate', 'efficiency', 'distance' and 'lifetime' applies to the
\* other names only.
C10_DefaultsEncodedFirst == OnlyRequiredFieldsYield(EncodedFirstDefault)

\* a request with only the required fields was encoded against the feature
\* list of a trained bundle, which has distance, lifetime, rate, efficiency
\* and encoded names to default, and was augmented
C10_Witness ==
    /\ pc = "done"
    /\ DOMAIN data = RequiredFields
    /\ ValidRequest(data)
    /\ Get(metadata, "feature_names", DefaultFeatureNames) = TrainedFeatureNames
    /\ \E i \in 1..Len(X) :
          TrainedFeatureNames[i] = "efficiency_class_encoded" /\ X[i] = Num(0)
    /\ \E i \in 1..Len(X) :
          TrainedFeatureNames[i] = "product_lifetime" /\ X[i] = Num(15)
    /\ "predictions" \in DOMAIN result
    /\ "improvements" \in DOMAIN result.predictions

\* the constant the claim gives a target whose regressor call raised
DegradedScore(target) ==
    CASE target = "sustainability_score" -> 65 * Milli
      [] target = "circular_score" -> 75 * Milli
      [] target = "linear_score" -> 55 * Milli

\* the call went through the loaded regressors
TrainedModeCall ==
    /\ pc = "done"
    /\ "fallback" \notin DOMAIN models
    /\ DOMAIN models # {}
    /\ Invocations("model.predict") > 0

\* C11: in trained-model mode a regressor whose call succeeds gives its target
\* the result clamped to [0,100], a regressor whose call raises gives its
\* target alone the fixed constant (65, 75, 55), whatever the other calls did,
\* and predict returns a predictions result.
C11_FailureDegradesPerTarget ==
    TrainedModeCall =>
        /\ "predictions" \in DOMAIN result
        /\ DOMAIN regressorCalls = DOMAIN models
        /\ \A target \in DOMAIN models :
              /\ target \in DOMAIN result.predictions
              /\ result.predictions[target] =
                     IF regressorCalls[target].raises
                     THEN DegradedScore(target)
                     ELSE Max(0, Min(100 * Milli, regressorCalls[target].pred))

\* three regressors were called: one raised and has its constant, one returned
\* a value above 100 and one a value inside the range
C11_Witness ==
    /\ TrainedModeCall
    /\ DOMAIN models = TargetSet
    /\ regressorCalls["sustainability_score"].raises
    /\ ~regressorCalls["circular_score"].raises
    /\ regressorCalls["circular_score"].pred > 100 * Milli
    /\ ~regressorCalls["linear_score"].raises
    /\ "predictions" \in DOMAIN result
    /\ result.predictions["sustainability_score"] = 65 * Milli
    /\ result.predictions["circular_score"] = 100 * Milli
    /\ result.predictions["linear_score"] = 42370

\* the request carries the field with a value that is not a number
NonNumeric(d, field) == field \in DOMAIN d /\ d[field].kind # "number"

\* the fields the Metrics Augmenter converts to numbers
AugmenterFields == {"process_efficiency", "recycling_rate", "transport_distance"}

\* the call reached the Metrics Augmenter
AugmenterRan == pc = "done" /\ Invocations("calculate_additional_metrics") = 1

\* C12: whatever the Metrics Augmenter does, the scores and the confidence it
\* was handed are in the result unchanged and predict returns a predictions
\* result; when one of process_efficiency, recycling_rate, transport_distance
\* is not a number, or sustainability_score is absent, the predictions are
\* exactly the incoming ones, with neither improvements nor potential_score.
C12_AugmenterFailureKeepsScores ==
    AugmenterRan =>
        /\ "predictions" \in DOMAIN result
        /\ \A k \in DOMAIN reconciled :
              /\ k \in DOMAIN result.predictions
              /\ result.predictions[k] = reconciled[k]
        /\ ((\E field \in AugmenterFields : NonNumeric(data, field))
              \/ "sustainability_score" \notin DOMAIN reconciled) =>
              /\ result.predictions = reconciled
              /\ "improvements" \notin DOMAIN result.predictions
              /\ "potential_score" \notin DOMAIN result.predictions

\* a request with a numeric process_efficiency and a non-numeric
\* transport_distance reached the augmenter with a sustainability_score and a
\* confidence, and came back with exactly these
C12_Witness ==
    /\ AugmenterRan
    /\ "process_efficiency" \in DOMAIN data
    /\ data.process_efficiency.kind = "number"
    /\ NonNumeric(data, "transport_distance")
    /\ "sustainability_score" \in DOMAIN reconciled
    /\ "confidence" \in DOMAIN reconciled
    /\ "predictions" \in DOMAIN result
    /\ result.predictions = reconciled

\* the call got past validation and encoding
Encoded == pc = "done" /\ Invocations("encode") = 1

\* C13: when the loaded bundle holds a scaler artifact, the collection written
\* by save_models included, the vector handed to inference is the encoded
\* vector under a loaded scaler's transform, or the encoded vector itself if
\* that transform fails; with no scaler artifact it is the encoded vector.
C13_LoadedScalerApplied ==
    Encoded =>
        IF DOMAIN scalers = {}
        THEN X_processed = X
        ELSE \E key \in DOMAIN scalers :
                X_processed = IF CanTransform(scalers[key], X)
                              THEN transform(scalers[key], X)
                              ELSE X

\* C14: every regressor that predict invoked was given a vector laid out as
\* the feature list that regressor was trained on: the configured feature
\* order is, name by name, the training script's feature list of that target.
C14_InvokedOnTrainingFeatureOrder ==
    pc = "done" =>
        \A target \in DOMAIN regressorCalls :
            /\ Len(X_processed) = models[target].n_features_in
            /\ required_features = FeatureCols(NumericColumns, target)

\* C15: at every point of every interleaving of predict calls on one engine,
\* models, scalers, encoders, metadata and industry_benchmarks are what
\* construction over the same artifacts yields, and every call that has
\* returned has the result the same request gets as the only call on a
\* freshly constructed engine.
C15_BundleImmutableCallsIndependent ==
    /\ Constructed(artifacts)
    /\ \A t \in Threads :
          threads[t].pc = "returned" =>
              threads[t].result =
                  predict(threads[t].data, regressors, BaseScores).result

\* one caller has returned from its second call, with scores, while the other
\* caller is between dispatch and reconciliation of a different request
C15_Witness ==
    /\ DOMAIN threads = Threads
    /\ threads["t1"].pc = "returned"
    /\ threads["t1"].calls >= 2
    /\ "predictions" \in DOMAIN threads["t1"].result
    /\ "sustainability_score" \in DOMAIN threads["t1"].result.predictions
    /\ threads["t2"].pc = "dispatched"
    /\ threads["t2"].data # threads["t1"].data

\* the engine is in fallback-only mode
FallbackOnly ==
    /\ models = [fallback |-> TRUE]
    /\ "version" \in DOMAIN metadata /\ metadata.version = "1.0-fallback"
    /\ "feature_names" \in DOMAIN metadata
    /\ metadata.feature_names =
          <<"metal_type_encoded", "production_route_encoded", "region_encoded",
            "total_energy", "total_water", "recycling_rate", "process_efficiency">>

\* C16: construction can always be carried out, and it ends in fallback-only
\* mode exactly when metadata.json exists and cannot be read; then no
\* regressor, scaler or encoder is loaded, whatever their files hold.  In every
\* other case exactly the regressors with a readable file are loaded, and a
\* missing or unreadable regressor, scaler or encoder file leaves its
\* attribute empty without putting the engine in fallback-only mode.
C16_FallbackOnlyIffMetadataUnreadable ==
    /\ pc = "start" => ENABLED ConstructEngine
    /\ pc = "constructed" =>
          /\ FallbackOnly <=> artifacts.metadata = "corrupt"
          /\ "fallback" \in DOMAIN models <=> artifacts.metadata = "corrupt"
          /\ artifacts.metadata = "corrupt" =>
                /\ DOMAIN models \cap TargetSet = {}
                /\ DOMAIN scalers = {}
                /\ DOMAIN encoders = {}
          /\ artifacts.metadata # "corrupt" =>
                /\ DOMAIN models = {t \in TargetSet : artifacts.model[t] = "valid"}
                /\ DOMAIN scalers = {} <=> artifacts.scalers \in {"absent", "corrupt"}
                /\ DOMAIN encoders = {} <=> artifacts.encoders \in {"absent", "corrupt"}
                /\ DOMAIN metadata = {} <=> artifacts.metadata = "absent"

\* construction over a directory whose metadata.json is unreadable and whose
\* regressor, scaler and encoder files are all valid ended in fallback-only
\* mode with nothing loaded
C16_Witness ==
    /\ pc = "constructed"
    /\ artifacts # NoCall
    /\ artifacts.metadata = "corrupt"
    /\ \A t \in TargetSet : artifacts.model[t] = "valid"
    /\ artifacts.scalers = "per_target"
    /\ artifacts.encoders = "valid"
    /\ FallbackOnly
    /\ DOMAIN scalers = {}

====
